---- MODULE Spec2Model ----
(***************************************************************************)
(* Model of horizon-pkg-fetch (src/fetch.go): PkgFetch fetches a signed    *)
(* manifest, prechecks it, then fetches and verifies every part in its own *)
(* goroutine (fetchAndVerify), recording per-part results under a mutex.   *)
(*                                                                         *)
(* The HTTP servers, the trust verifier (policy.VerifyWorkload) and the    *)
(* initial content of the destination directory are the environment.       *)
(* File contents are byte sequences over 1..3; SHA-256 is modelled as an   *)
(* injective encoding of the byte sequence, rendered as lower-case hex.    *)
(***************************************************************************)
EXTENDS Integers, Sequences, FiniteSets, TLC

\* ------------------------------------------------------------------------
\* Bounds of the model
\* ------------------------------------------------------------------------
MaxSources == 2
MaxSigs == 2

\* ------------------------------------------------------------------------
\* Data: bytes, digests, signatures, URLs, responses
\* ------------------------------------------------------------------------
RECURSIVE Sum256(_)
\* sha256 of a byte sequence: an injective encoding (bytes are 1..3, base 4)
Sum256(data) ==
    IF data = <<>> THEN 0
    ELSE 4 * Sum256(SubSeq(data, 1, Len(data) - 1)) + data[Len(data)]

HexDigits == <<"0", "1", "2", "3", "4", "5", "6", "7",
               "8", "9", "a", "b", "c", "d", "e", "f">>

\* fmt.Sprintf("%x", string(hasher.Sum(nil))): two lower-case hex digits per byte
Hex(n) == <<HexDigits[((n \div 16) % 16) + 1], HexDigits[(n % 16) + 1]>>

\* the content the publisher of the package built and signed for every part
GoodData == <<2, 3>>
\* a body of the declared length that is not the published content
WrongData == <<1, 1>>
ShortData == <<2>>
LongData == <<2, 3, 1>>

\* files left in the destination directory by earlier runs or other programs
StaleShort == <<3>>
StaleSame == <<3, 3>>
StaleLong == <<3, 3, 3>>

\* policy.VerifyWorkload(primarySigningKey, sig, hasher, userKeysDir) is the
\* external trust verifier. trust is what it answers for each signature string
\* over the digest at hand: (true, nil), (false, nil) or (_, err)
VerifyOutcomes == {"true", "false", "error"}
VerifyWorkload(trust, sig, digest) == trust[sig]

\* a file of the local filesystem
Absent == [exists |-> FALSE, data |-> <<>>]
File(data) == [exists |-> TRUE, data |-> data]

\* error values: nil, or the error type with its message and, for a failed
\* source, the status and URL it reports
Nil == [type |-> "nil", msg |-> "", status |-> 0, url |-> <<>>]
Err(type, msg) == [type |-> type, msg |-> msg, status |-> 0, url |-> <<>>]
ErrAt(type, msg, status, url) == [type |-> type, msg |-> msg, status |-> status, url |-> url]

\* an HTTP exchange: a transport error (no response), or a status and a body
TransportError == [neterr |-> TRUE, status |-> 0, body |-> <<>>]
Response(status, body) == [neterr |-> FALSE, status |-> status, body |-> body]

PartBodies == {ShortData, WrongData, GoodData, LongData}
PartResponses ==
    {TransportError}
    \cup {Response(s, <<>>) : s \in {401, 403, 500}}
    \cup {Response(200, b) : b \in PartBodies}

\* URLs are sequences of the segments between "/" characters; a string that
\* starts with "/" has an empty first segment
pkgURL == <<"https:", "", "host", "pkgs", "pkg.json">>
SourceURLPool == << <<"", "parts", "u1">>, <<"https:", "", "mirror", "u2">>,
                    <<"", "parts", "u3">>, <<"https:", "", "mirror", "u4">> >>
SourceURLs == {SourceURLPool[i] : i \in 1..MaxSources}

\* strings.HasPrefix(source.URL, "/")
HasSlashPrefix(u) == Len(u) > 0 /\ u[1] = ""

\* strings.Join(pkgURLParts[0:len(pkgURLParts)-1], "/")
PkgURLBase(u) == SubSeq(u, 1, Len(u) - 1)

\* fmt.Sprintf("%s%s", pkgURLBase, source.URL) for a source that starts with "/"
ResolveSource(base, u) == IF HasSlashPrefix(u) THEN base \o Tail(u) ELSE u

\* ------------------------------------------------------------------------
\* verifySignatureWithAnyKey, verifyPkgPart
\* ------------------------------------------------------------------------
RECURSIVE verifySignatureWithAnyKey(_, _, _)
\* the signatures are tried in list order: an error of the verifier is returned
\* at once, the first verified signature returns nil, an exhausted list returns
\* VerificationError{}
verifySignatureWithAnyKey(trust, digest, signatures) ==
    IF signatures = <<>> THEN Err("VerificationError", "")
    ELSE LET verified == VerifyWorkload(trust, Head(signatures), digest)
         IN IF verified = "error" THEN Err("VerifyWorkloadError", "")
            ELSE IF verified = "true" THEN Nil
            ELSE verifySignatureWithAnyKey(trust, digest, Tail(signatures))

\* verifyPkgPart that leaves the file in place when the hash differs
verifyPkgPart_keepFile(trust, file, partHash, signatures) ==
    IF ~file.exists
    THEN [err |-> Err("PathError", "open"), file |-> file, checked |-> 0]
    ELSE LET digest == Sum256(file.data)
             actualHash == Hex(digest)
         IN IF partHash # actualHash
            THEN [err |-> Err("PkgSignatureVerificationError",
                              "Mismatch between expected hash and actual hash"),
                  file |-> file, checked |-> 0]
            ELSE IF verifySignatureWithAnyKey(trust, digest, signatures) = Nil
            THEN [err |-> Nil, file |-> file, checked |-> 1]
            ELSE [err |-> Err("PkgSignatureVerificationError",
                              "Part failed cryptographic verification"),
                  file |-> file, checked |-> 1]

\* verifyPkgPart that also removes a file no signature verifies
verifyPkgPart_deleteUnverified(trust, file, partHash, signatures) ==
    IF ~file.exists
    THEN [err |-> Err("PathError", "open"), file |-> file, checked |-> 0]
    ELSE LET digest == Sum256(file.data)
             actualHash == Hex(digest)
         IN IF partHash # actualHash
            THEN [err |-> Err("PkgSignatureVerificationError",
                              "Mismatch between expected hash and actual hash"),
                  file |-> Absent, checked |-> 0]
            ELSE IF verifySignatureWithAnyKey(trust, digest, signatures) = Nil
            THEN [err |-> Nil, file |-> file, checked |-> 1]
            ELSE [err |-> Err("PkgSignatureVerificationError",
                              "Part failed cryptographic verification"),
                  file |-> Absent, checked |-> 1]

\* verifyPkgPart on the file at partPath: the error returned, the file left and
\* how often the trust verifier was called on to check the digest
verifyPkgPart(trust, file, partHash, signatures) ==
    IF ~file.exists
    THEN [err |-> Err("PathError", "open"), file |-> file, checked |-> 0]
    ELSE LET digest == Sum256(file.data)
             actualHash == Hex(digest)
         IN IF partHash # actualHash
            THEN [err |-> Err("PkgSignatureVerificationError",
                              "Mismatch between expected hash and actual hash"),
                  file |-> Absent, checked |-> 0]
            ELSE IF verifySignatureWithAnyKey(trust, digest, signatures) = Nil
            THEN [err |-> Nil, file |-> file, checked |-> 1]
            ELSE [err |-> Err("PkgSignatureVerificationError",
                              "Part failed cryptographic verification"),
                  file |-> file, checked |-> 1]

\* ------------------------------------------------------------------------
\* fetchPkgPart
\* ------------------------------------------------------------------------
\* os.OpenFile(partPath, O_RDWR|O_CREATE, 0600): creates the file when it is
\* absent and opens it at offset 0, untruncated, when it exists
tryOpen(file) == IF file.exists THEN file ELSE File(<<>>)

\* os.IsExist(openErr): without O_EXCL the open never fails because the file
\* exists
OpenErrIsExist(file) == FALSE

\* io.Copy(partFile, response.Body) through a handle at offset 0: the body
\* replaces the first bytes of the file and what lies beyond them stays
CopyToFile(file, body) ==
    File(body \o SubSeq(file.data, Len(body) + 1, Len(file.data)))

\* tryRemove followed by tryOpen: the file is unlinked and created empty
RemoveAndReopen(file) == File(<<>>)

NoFailure == [set |-> FALSE, HTTPStatusCode |-> 0, PartURL |-> <<>>]
partFetchFailure(status, url) == [set |-> TRUE, HTTPStatusCode |-> status, PartURL |-> url]

\* the return after the loop over the sources (lines 255-267)
ExhaustedError(fetchFailure) ==
    IF fetchFailure.set
    THEN IF fetchFailure.HTTPStatusCode = 401 \/ fetchFailure.HTTPStatusCode = 403
         THEN ErrAt("PkgSourceFetchAuthError",
                    "Authentication or Authorization error attempting to fetch part",
                    fetchFailure.HTTPStatusCode, fetchFailure.PartURL)
         ELSE ErrAt("PkgSourceFetchError", "Error when fetching part from URL",
                    fetchFailure.HTTPStatusCode, fetchFailure.PartURL)
    ELSE Err("PkgSourceFetchError", "Failed to complete fetch.")

FetchReturn(err, file, reqs) == [err |-> err, file |-> file, reqs |-> reqs, panic |-> FALSE]
\* a nil pointer dereference: the goroutine panics and the process dies
FetchPanic(file, reqs) == [err |-> Nil, file |-> file, reqs |-> reqs, panic |-> TRUE]

\* a body that is at least expectedBytes long is accepted
SizeMatches_atLeast(bytes, expectedBytes) == bytes >= expectedBytes

\* line 236: the bytes copied are compared with expectedBytes
SizeMatches(bytes, expectedBytes) == bytes = expectedBytes

\* fetchFailure is not reset between the sources
ResetFailure_keep(fetchFailure) == fetchFailure

\* fetchFailure = nil at the top of every iteration (line 217)
ResetFailure(fetchFailure) == NoFailure

RECURSIVE SourceLoop(_, _, _, _, _, _, _, _)
\* the loop over sources[i..] (lines 207-253): file is the content behind
\* partFile, reqs the URLs requested so far, fetchFailure the variable of that
\* name as the previous iteration left it
SourceLoop(server, pkgURLBase, expectedBytes, sources, i, file, reqs, fetchFailure) ==
    IF i > Len(sources)
    THEN FetchReturn(ExhaustedError(fetchFailure), file, reqs)
    ELSE LET pURL == ResolveSource(pkgURLBase, sources[i].URL)
             response == server[pURL]
             asked == Append(reqs, pURL)
             cleared == ResetFailure(fetchFailure)
         IN IF response.neterr
            THEN \* response is nil and line 228 reads response.StatusCode
                 FetchPanic(file, asked)
            ELSE IF response.status # 200
            THEN SourceLoop(server, pkgURLBase, expectedBytes, sources, i + 1, file,
                            asked, partFetchFailure(response.status, pURL))
            ELSE LET written == CopyToFile(file, response.body)
                 IN IF ~SizeMatches(Len(response.body), expectedBytes)
                    THEN SourceLoop(server, pkgURLBase, expectedBytes, sources, i + 1,
                                    RemoveAndReopen(written), asked, cleared)
                    ELSE FetchReturn(Nil, written, asked)

\* fetchPkgPart(client, authCreds, pkgURLBase, partPath, expectedBytes, sources)
\* against a server (resolved URL -> exchange), with file the content at
\* partPath when it is called: the error returned, the file left, the URLs
\* requested in order, and whether the goroutine panicked
fetchPkgPart(server, pkgURLBase, file, expectedBytes, sources) ==
    IF OpenErrIsExist(file)
    THEN \* lines 178-202; partFile is nil here, so tryRemove panics in f.Name()
         IF Len(file.data) = expectedBytes
         THEN FetchReturn(Nil, file, <<>>)
         ELSE FetchPanic(file, <<>>)
    ELSE SourceLoop(server, pkgURLBase, expectedBytes, sources, 1, tryOpen(file),
                    <<>>, NoFailure)

\* ------------------------------------------------------------------------
\* The manifest (horizonpkg.Pkg), the inputs of PkgFetch and the environment
\* ------------------------------------------------------------------------
PartNames == {"A", "B"}

\* the ID of the part stored under a name of pkg.Parts
PartID(name) == <<"image", name>>

\* sequences of length 0..n over a set
SeqsUpTo(S, n) == UNION {[1..k -> S] : k \in 0..n}

Injective(f) == \A i, j \in DOMAIN f : f[i] = f[j] => i = j

\* the source lists a part may declare: distinct URLs in any order
SourceLists ==
    {[i \in DOMAIN us |-> [URL |-> us[i]]] :
        us \in {q \in SeqsUpTo(SourceURLs, MaxSources) : Injective(q)}}

\* the signature lists a part may declare: distinct signature strings
SigPool == <<"sig1", "sig2", "sig3", "sig4">>
SigNames == {SigPool[i] : i \in 1..MaxSigs}
SigLists == {q \in SeqsUpTo(SigNames, MaxSigs) : Injective(q)}

\* horizonpkg.DockerImagePart as published: Bytes and Sha256sum are those of
\* the published content
Part(name, sources, signatures) ==
    [ID |-> PartID(name), Bytes |-> Len(GoodData), Sha256sum |-> Hex(Sum256(GoodData)),
     Signatures |-> signatures, Sources |-> sources]

EmptyParts == [n \in {} |-> Part(n, <<>>, <<>>)]
NoPkg == [ID |-> "", Provides |-> {}, Parts |-> EmptyParts]

\* the resolved URLs of a part's sources
ResolvedURLs(base, sources) ==
    {ResolveSource(base, sources[i].URL) : i \in DOMAIN sources}

\* destinationDir is a relative path; filepath.Abs prepends the working directory
destinationDir == <<"dest">>
Abs(p) == IF Len(p) > 0 /\ p[1] = "" THEN p ELSE <<"", "cwd">> \o p

\* path.Join(destinationDir, pkg.ID) and path.Join(pkgDestinationDir, name)
PkgDestinationDir(id) == destinationDir \o <<id>>
PartPath(id, name) == PkgDestinationDir(id) \o <<name>>

\* the raw bytes of the manifest, and of a manifest file of an earlier run
MetaRaw == <<1, 2, 3>>
MetaStale == <<3, 3>>

\* the signature argument of PkgFetch: empty, or a detached signature
PkgSignatures == {"", "pkgsig"}

\* The environment of a run is either unconstrained ("any") or the one the
\* specification calls valid, downloadable and verifiable ("healthy"): the
\* manifest decodes and lists every part in Meta.Provides, every part declares
\* at least one source and one signature, every source answers with an HTTP
\* status or with the published content and at least one with the published
\* content, the trust verifier accepts at least one signature of each list and
\* fails on none, and directories can be created.
Worlds == {"any", "healthy"}

\* the parts of the manifests served: the sources are the first k of the pool,
\* the signatures all those of the pool
PartsOf(name, w) ==
    {Part(name, s, g) :
        s \in {q \in SourceLists : /\ \A i \in DOMAIN q : q[i].URL = SourceURLPool[i]
                                   /\ w = "healthy" => Len(q) > 0},
        g \in {h \in SigLists : /\ \A i \in DOMAIN h : h[i] = SigPool[i]
                                /\ Len(h) = MaxSigs}}

Manifests(w) ==
    UNION {
      {[ID |-> "pkg1", Provides |-> {PartID(n) : n \in S \ missing}, Parts |-> parts] :
          parts \in {f \in [S -> UNION {PartsOf(n, w) : n \in S}] :
                         \A n \in S : f[n].ID = PartID(n)},
          missing \in IF w = "healthy" THEN {{}} ELSE {{}} \cup {{n} : n \in S}}
      : S \in SUBSET PartNames}

NoBody == [raw |-> <<>>, decodes |-> FALSE, pkg |-> NoPkg]
MetaBodies(w) ==
    {[raw |-> MetaRaw, decodes |-> TRUE, pkg |-> m] : m \in Manifests(w)}
    \cup IF w = "healthy" THEN {}
         ELSE {[raw |-> MetaRaw, decodes |-> FALSE, pkg |-> NoPkg]}

MetaExchanges(w) ==
    {Response(200, b) : b \in MetaBodies(w)}
    \cup IF w = "healthy" THEN {}
         ELSE {[neterr |-> TRUE, status |-> 0, body |-> NoBody], Response(404, NoBody)}

\* what the servers of a part's sources may answer
PartServers(urls, w) ==
    IF w = "healthy"
    THEN {f \in [urls -> {Response(s, <<>>) : s \in {401, 403, 500}}
                         \cup {Response(200, GoodData)}] :
              \E u \in urls : f[u].status = 200}
    ELSE [urls -> PartResponses]

\* what the trust verifier may answer for the signatures of a list
Trusts(sigs, w) ==
    IF w = "healthy"
    THEN {t \in [sigs -> {"true", "false"}] : \E g \in sigs : t[g] = "true"}
    ELSE [sigs -> VerifyOutcomes]

Range(q) == {q[i] : i \in DOMAIN q}

\* what the destination directory may hold for a part before the run
InitFiles == {Absent, File(StaleShort), File(StaleSame), File(GoodData), File(StaleLong)}

\* ------------------------------------------------------------------------
\* State
\* ------------------------------------------------------------------------
VARIABLES
    world,            \* the environment of the run (see Worlds)
    pkgURLSignature,  \* argument of PkgFetch
    pc,               \* where PkgFetch is
    dirs,             \* the directories that exist
    metaFile,         \* <destinationDir>/<pkg.ID>.json
    partFiles,        \* <destinationDir>/<pkg.ID>/<name>, per part name
    initFiles,        \* partFiles as the run found them
    metaSeen,         \* what the manifest GET and its verification gave
    metaReqs,         \* manifest GETs issued
    partReqs,         \* per part name, the URLs requested, in order
    pkg,              \* the manifest fetchPkgMeta returned
    Errors,           \* fetchErrs.Errors; Nil stands for an absent key
    fetched,          \* the fetched slice of fetchAndVerify
    WriteLock,        \* fetchErrs.WriteLock: "free" or the name of its holder
    tpc,              \* per part name, where its goroutine is
    terr,             \* per part name, the error its last fetchPkgPart or
                      \* verifyPkgPart returned
    synced,           \* per part name, whether Errors was non-empty when the
                      \* goroutine last released WriteLock
    verified,         \* per part name, how often verifyPkgPart ran
    checked,          \* per part name, how often verifySignatureWithAnyKey was
                      \* called for the digest of its file
    earlier,          \* what the run of PkgFetch before this one left
    ret,              \* what PkgFetch returned
    crashed,          \* a goroutine panicked: the process is gone
    args,             \* the arguments of a function called on its own
    result            \* what that function returned

vars == <<args, result, earlier, checked, world, pkgURLSignature, pc, dirs, metaFile, partFiles, initFiles, metaSeen, metaReqs,
          partReqs, pkg, Errors, fetched, WriteLock, tpc, terr, synced, verified,
          ret, crashed>>

NoReturn == [paths |-> <<>>, err |-> Nil]

\* no run of PkgFetch came before this one
NoRun == [ran |-> FALSE, mismatched |-> {}]

\* the exchange of the manifest GET, the answer of the trust verifier for
\* pkgURLSignature over the digest of the body, and whether the body decodes
NotSeen == [asked |-> FALSE, neterr |-> FALSE, status |-> 0, verified |-> "", decodes |-> FALSE]
Seen(exchange, outcome) ==
    [asked |-> TRUE, neterr |-> exchange.neterr, status |-> exchange.status,
     verified |-> outcome, decodes |-> exchange.body.decodes]

Init ==
    /\ world \in Worlds
    /\ pkgURLSignature \in IF world = "healthy" THEN PkgSignatures \ {""} ELSE PkgSignatures
    /\ pc = "PkgFetch"
    /\ dirs \in {{}, {destinationDir}, {destinationDir, PkgDestinationDir("pkg1")}}
    /\ metaFile \in {Absent, File(MetaStale)}
    /\ metaFile.exists => destinationDir \in dirs
    /\ partFiles \in [PartNames -> InitFiles]
    /\ \A n \in PartNames : partFiles[n].exists => PkgDestinationDir("pkg1") \in dirs
    /\ initFiles = partFiles
    /\ metaSeen = NotSeen
    /\ metaReqs = 0
    /\ partReqs = [n \in PartNames |-> <<>>]
    /\ pkg = NoPkg
    /\ Errors = [n \in PartNames |-> Nil]
    /\ fetched = <<>>
    /\ WriteLock = "free"
    /\ tpc = [n \in PartNames |-> "none"]
    /\ terr = [n \in PartNames |-> Nil]
    /\ synced = [n \in PartNames |-> FALSE]
    /\ verified = [n \in PartNames |-> 0]
    /\ checked = [n \in PartNames |-> 0]
    /\ earlier = NoRun
    /\ ret = NoReturn
    /\ crashed = FALSE
    /\ args = <<>>
    /\ result = <<>>

\* ------------------------------------------------------------------------
\* PkgFetch up to the call of fetchAndVerify
\* ------------------------------------------------------------------------
Return(paths, err) ==
    /\ pc' = "returned"
    /\ ret' = [paths |-> paths, err |-> err]

\* os.MkdirAll: nothing to do for a directory that exists, else it may fail
MkdirOutcomes(d) == IF d \in dirs \/ world = "healthy" THEN {TRUE} ELSE {TRUE, FALSE}

\* PkgFetchStart with mkdirs(destinationDir) moved before the signature check
PkgFetchStart_mkdirFirst ==
    /\ pc = "PkgFetch" /\ ~crashed
    /\ \E ok \in MkdirOutcomes(destinationDir) :
         IF ~ok
         THEN /\ Return(<<>>, Err("PkgSourceError", "Failed creating Pkg destination dirs on host"))
              /\ UNCHANGED dirs
         ELSE /\ dirs' = dirs \cup {destinationDir}
              /\ IF pkgURLSignature = ""
                 THEN Return(<<>>, Err("error", "Disabling Pkg file signature checking not supported"))
                 ELSE pc' = "fetchPkgMeta" /\ UNCHANGED ret
    /\ UNCHANGED <<args, result, earlier, checked, world, pkgURLSignature, metaFile, partFiles, initFiles,
                   metaSeen, metaReqs, partReqs, pkg, Errors, fetched, WriteLock, tpc,
                   terr, synced, verified, crashed>>

\* lines 406-415: the signature check, then mkdirs(destinationDir)
PkgFetchStart ==
    /\ pc = "PkgFetch" /\ ~crashed
    /\ IF pkgURLSignature = ""
       THEN /\ Return(<<>>, Err("error", "Disabling Pkg file signature checking not supported"))
            /\ UNCHANGED dirs
       ELSE \E ok \in MkdirOutcomes(destinationDir) :
              IF ok
              THEN /\ dirs' = dirs \cup {destinationDir}
                   /\ pc' = "fetchPkgMeta"
                   /\ UNCHANGED ret
              ELSE /\ Return(<<>>, Err("PkgSourceError", "Failed creating Pkg destination dirs on host"))
                   /\ UNCHANGED dirs
    /\ UNCHANGED <<args, result, earlier, checked, world, pkgURLSignature, metaFile, partFiles, initFiles, metaSeen, metaReqs,
                   partReqs, pkg, Errors, fetched, WriteLock, tpc, terr, synced,
                   verified, crashed>>

\* fetchPkgMeta with the file written before the body is decoded
fetchPkgMeta_writeFirst(exchange, trust, signature, file) ==
    IF exchange.neterr
    THEN [err |-> Err("url.Error", "client.Do"), pkg |-> NoPkg, file |-> file]
    ELSE IF exchange.status # 200
    THEN [err |-> Err("PkgMetaError", "Unexpected status code in response to Horizon Pkg fetch"),
          pkg |-> NoPkg, file |-> file]
    ELSE IF verifySignatureWithAnyKey(trust, Sum256(exchange.body.raw), <<signature>>) # Nil
    THEN [err |-> Err("PkgMetaError", "Pkg metadata failed cryptographic verification"),
          pkg |-> NoPkg, file |-> file]
    ELSE IF ~exchange.body.decodes
    THEN [err |-> Err("json.SyntaxError", "Unmarshal"), pkg |-> NoPkg,
          file |-> File(exchange.body.raw)]
    ELSE [err |-> Nil, pkg |-> exchange.body.pkg, file |-> File(exchange.body.raw)]

\* fetchPkgMeta against one exchange and one answer of the trust verifier: the
\* error and manifest returned and the manifest file left
fetchPkgMeta(exchange, trust, signature, file) ==
    IF exchange.neterr
    THEN [err |-> Err("url.Error", "client.Do"), pkg |-> NoPkg, file |-> file]
    ELSE IF exchange.status # 200
    THEN [err |-> Err("PkgMetaError", "Unexpected status code in response to Horizon Pkg fetch"),
          pkg |-> NoPkg, file |-> file]
    ELSE IF verifySignatureWithAnyKey(trust, Sum256(exchange.body.raw), <<signature>>) # Nil
    THEN [err |-> Err("PkgMetaError", "Pkg metadata failed cryptographic verification"),
          pkg |-> NoPkg, file |-> file]
    ELSE IF ~exchange.body.decodes
    THEN [err |-> Err("json.SyntaxError", "Unmarshal"), pkg |-> NoPkg, file |-> file]
    ELSE [err |-> Nil, pkg |-> exchange.body.pkg, file |-> File(exchange.body.raw)]

\* lines 417-420: the call of fetchPkgMeta
FetchMeta ==
    /\ pc = "fetchPkgMeta" /\ ~crashed
    /\ \E exchange \in MetaExchanges(world), trust \in Trusts({pkgURLSignature}, world) :
         LET r == fetchPkgMeta(exchange, trust, pkgURLSignature, metaFile)
         IN /\ metaReqs' = metaReqs + 1
            /\ metaSeen' = Seen(exchange, trust[pkgURLSignature])
            /\ metaFile' = r.file
            /\ IF r.err # Nil
               THEN Return(<<>>, r.err) /\ UNCHANGED pkg
               ELSE pkg' = r.pkg /\ pc' = "precheck" /\ UNCHANGED ret
    /\ UNCHANGED <<args, result, earlier, checked, world, pkgURLSignature, dirs, partFiles, initFiles, partReqs,
                   Errors, fetched, WriteLock, tpc, terr, synced, verified, crashed>>

\* precheckPkgParts that is content with Meta.Provides listing some part
precheckPkgParts_anyProvided(p) ==
    IF DOMAIN p.Parts # {} /\ \A n \in DOMAIN p.Parts : p.Parts[n].ID \notin p.Provides
    THEN Err("error", "Meta.Provides is missing info about part")
    ELSE Nil

\* precheckPkgParts: nil, or an error for a part Meta.Provides does not list
precheckPkgParts(p) ==
    IF \E n \in DOMAIN p.Parts : p.Parts[n].ID \notin p.Provides
    THEN Err("error", "Meta.Provides is missing info about part")
    ELSE Nil

\* lines 423-430: the precheck, then mkdirs(pkgDestinationDir)
Precheck ==
    /\ pc = "precheck" /\ ~crashed
    /\ IF precheckPkgParts(pkg) # Nil
       THEN /\ Return(<<>>, Err("PkgPrecheckError", "Failed to validate Pkg information before fetching"))
            /\ UNCHANGED dirs
       ELSE \E ok \in MkdirOutcomes(PkgDestinationDir(pkg.ID)) :
              IF ok
              THEN /\ dirs' = dirs \cup {PkgDestinationDir(pkg.ID)}
                   /\ pc' = "fetchAndVerify"
                   /\ UNCHANGED ret
              ELSE /\ Return(<<>>, Err("PkgSourceError", "Failed creating Pkg destination dirs on host"))
                   /\ UNCHANGED dirs
    /\ UNCHANGED <<args, result, earlier, checked, world, pkgURLSignature, metaFile, partFiles, initFiles, metaSeen, metaReqs,
                   partReqs, pkg, Errors, fetched, WriteLock, tpc, terr, synced,
                   verified, crashed>>

\* ------------------------------------------------------------------------
\* fetchAndVerify: one goroutine per part, joined by group.Wait()
\* ------------------------------------------------------------------------
\* len(fetchErrs.Errors)
LenErrors(errors) == Cardinality({n \in DOMAIN errors : errors[n] # Nil})

\* lines 354-384: a goroutine is started for every part of pkg.Parts
Fork ==
    /\ pc = "fetchAndVerify" /\ ~crashed
    /\ tpc' = [n \in PartNames |-> IF n \in DOMAIN pkg.Parts THEN "fetch" ELSE "none"]
    /\ pc' = "Wait"
    /\ UNCHANGED <<args, result, earlier, checked, world, pkgURLSignature, dirs, metaFile, partFiles, initFiles, metaSeen,
                   metaReqs, partReqs, pkg, Errors, fetched, WriteLock, terr, synced,
                   verified, ret, crashed>>

\* line 375: fetchPkgPart of the goroutine of part name
TaskFetch(name) ==
    /\ tpc[name] = "fetch" /\ ~crashed
    /\ LET part == pkg.Parts[name]
           base == PkgURLBase(pkgURL)
       IN \E server \in PartServers(ResolvedURLs(base, part.Sources), world) :
            LET r == fetchPkgPart(server, base, partFiles[name], part.Bytes, part.Sources)
            IN /\ partFiles' = [partFiles EXCEPT ![name] = r.file]
               /\ partReqs' = [partReqs EXCEPT ![name] = r.reqs]
               /\ crashed' = r.panic
               /\ terr' = [terr EXCEPT ![name] = r.err]
               /\ tpc' = [tpc EXCEPT ![name] = "addFetch"]
    /\ UNCHANGED <<args, result, earlier, checked, world, pkgURLSignature, pc, dirs, metaFile, initFiles, metaSeen, metaReqs,
                   pkg, Errors, fetched, WriteLock, synced, verified, ret>>

\* line 331: fetchErrs.WriteLock.Lock() in either call of addResult
TaskLock(name) ==
    /\ tpc[name] \in {"addFetch", "addVerify"} /\ ~crashed
    /\ WriteLock = "free"
    /\ WriteLock' = name
    /\ tpc' = [tpc EXCEPT ![name] = IF tpc[name] = "addFetch" THEN "recFetch" ELSE "recVerify"]
    /\ UNCHANGED <<args, result, earlier, checked, world, pkgURLSignature, pc, dirs, metaFile, partFiles, initFiles, metaSeen,
                   metaReqs, partReqs, pkg, Errors, fetched, terr, synced, verified,
                   ret, crashed>>

\* addResult(id, err, partPath) past the Lock (lines 334-349): the Errors map
\* and the fetched slice it leaves
addResult(errors, paths, id, err, partPath) ==
    IF err # Nil
    THEN [Errors |-> [errors EXCEPT ![id] = err], fetched |-> paths]
    ELSE IF partPath # <<>>
    THEN [Errors |-> errors, fetched |-> Append(paths, Abs(partPath))]
    ELSE [Errors |-> errors, fetched |-> paths]

\* the body of addResult and the deferred Unlock, in the call after
\* fetchPkgPart (partPath "") or the call after verifyPkgPart
TaskRecord(name) ==
    /\ tpc[name] \in {"recFetch", "recVerify"} /\ ~crashed
    /\ WriteLock = name
    /\ LET r == addResult(Errors, fetched, name, terr[name],
                          IF tpc[name] = "recFetch" THEN <<>> ELSE PartPath(pkg.ID, name))
       IN /\ Errors' = r.Errors
          /\ fetched' = r.fetched
          /\ synced' = [synced EXCEPT ![name] = LenErrors(r.Errors) > 0]
    /\ WriteLock' = "free"
    /\ tpc' = [tpc EXCEPT ![name] = IF tpc[name] = "recFetch" THEN "check" ELSE "done"]
    /\ UNCHANGED <<args, result, earlier, checked, world, pkgURLSignature, pc, dirs, metaFile, partFiles,
                   initFiles, metaSeen, metaReqs, partReqs, pkg, terr, verified, ret, crashed>>

\* the read of line 378 may miss even what the goroutine itself recorded
SeenEmpty_unsynced(name) ==
    IF LenErrors(Errors) = 0 THEN {TRUE} ELSE {TRUE, FALSE}

\* line 378: len(fetchErrs.Errors) == 0 is read without the lock. What the
\* goroutine saw when it last released the lock it sees again; a later write
\* of another goroutine races with the read, which then gives either length
SeenEmpty(name) ==
    IF LenErrors(Errors) = 0 THEN {TRUE}
    ELSE IF synced[name] THEN {FALSE}
    ELSE {TRUE, FALSE}

TaskCheck(name) ==
    /\ tpc[name] = "check" /\ ~crashed
    /\ \E empty \in SeenEmpty(name) :
         tpc' = [tpc EXCEPT ![name] = IF empty THEN "verify" ELSE "done"]
    /\ UNCHANGED <<args, result, earlier, checked, world, pkgURLSignature, pc, dirs, metaFile, partFiles, initFiles, metaSeen,
                   metaReqs, partReqs, pkg, Errors, fetched, WriteLock, terr, synced,
                   verified, ret, crashed>>

\* line 380: verifyPkgPart of the goroutine of part name
TaskVerify(name) ==
    /\ tpc[name] = "verify" /\ ~crashed
    /\ LET part == pkg.Parts[name]
       IN \E trust \in Trusts(Range(part.Signatures), world) :
            LET r == verifyPkgPart(trust, partFiles[name], part.Sha256sum, part.Signatures)
            IN /\ partFiles' = [partFiles EXCEPT ![name] = r.file]
               /\ terr' = [terr EXCEPT ![name] = r.err]
               /\ checked' = [checked EXCEPT ![name] = checked[name] + r.checked]
    /\ verified' = [verified EXCEPT ![name] = verified[name] + 1]
    /\ tpc' = [tpc EXCEPT ![name] = "addVerify"]
    /\ UNCHANGED <<args, result, earlier, world, pkgURLSignature, pc, dirs, metaFile, initFiles, metaSeen, metaReqs,
                   partReqs, pkg, Errors, fetched, WriteLock, synced, ret, crashed>>

\* Join returning the paths fetched so far together with the error
Join_partial ==
    /\ pc = "Wait" /\ ~crashed
    /\ \A n \in PartNames : tpc[n] \in {"none", "done"}
    /\ IF LenErrors(Errors) > 0
       THEN Return(fetched, Err("error", "Error fetching parts"))
       ELSE Return(fetched, Nil)
    /\ UNCHANGED <<args, result, earlier, checked, world, pkgURLSignature, dirs, metaFile, partFiles, initFiles,
                   metaSeen, metaReqs, partReqs, pkg, Errors, fetched, WriteLock, tpc, terr,
                   synced, verified, crashed>>

\* lines 386-392 and 438-446: group.Wait() returns when every goroutine is
\* done, and PkgFetch returns what fetchAndVerify returns
Join ==
    /\ pc = "Wait" /\ ~crashed
    /\ \A n \in PartNames : tpc[n] \in {"none", "done"}
    /\ IF LenErrors(Errors) > 0
       THEN Return(<<>>, Err("error", "Error fetching parts"))
       ELSE Return(fetched, Nil)
    /\ UNCHANGED <<args, result, earlier, checked, world, pkgURLSignature, dirs, metaFile, partFiles, initFiles, metaSeen,
                   metaReqs, partReqs, pkg, Errors, fetched, WriteLock, tpc, terr,
                   synced, verified, crashed>>

Next ==
    \/ PkgFetchStart
    \/ FetchMeta
    \/ Precheck
    \/ Fork
    \/ \E name \in PartNames : TaskFetch(name)
    \/ \E name \in PartNames : TaskLock(name)
    \/ \E name \in PartNames : TaskRecord(name)
    \/ \E name \in PartNames : TaskCheck(name)
    \/ \E name \in PartNames : TaskVerify(name)
    \/ Join

Spec == Init /\ [][Next]_vars

\* ------------------------------------------------------------------------
\* Properties of PkgFetch and fetchAndVerify, checked under Spec
\* ------------------------------------------------------------------------
Returned == pc = "returned"
Parts == DOMAIN pkg.Parts

\* the manifest GET answered 200, the signature verified and the body decoded
MetaGood(seen) ==
    seen.asked /\ ~seen.neterr /\ seen.status = 200 /\ seen.verified = "true" /\ seen.decodes

\* C1: when PkgFetch returns, an error of any part's fetchPkgPart or executed
\* verifyPkgPart means a non-nil error and a nil path list; a nil error means
\* no part recorded an error; an error never comes with paths.
C1_AllOrNothing ==
    Returned =>
        /\ (\E n \in PartNames : terr[n] # Nil) => (ret.err # Nil /\ ret.paths = <<>>)
        /\ ret.err = Nil => \A n \in PartNames : Errors[n] = Nil /\ terr[n] = Nil
        /\ ret.err # Nil => ret.paths = <<>>

\* one part failed after another was fetched, verified and had its path recorded
C1_Witness ==
    /\ Returned
    /\ fetched # <<>>
    /\ \E n \in PartNames : terr[n] # Nil
    /\ ret.err # Nil /\ ret.paths = <<>>

\* C2: in a healthy world and whatever the destination directory held, PkgFetch
\* returns nil and one absolute path per part, and every part file holds the
\* declared number of bytes with the declared hash.
C2_HealthyFetchSucceeds ==
    (world = "healthy" /\ Returned) =>
        /\ ret.err = Nil
        /\ Len(ret.paths) = Cardinality(Parts)
        /\ \A n \in Parts :
             /\ Abs(PartPath(pkg.ID, n)) \in Range(ret.paths)
             /\ partFiles[n].exists
             /\ Len(partFiles[n].data) = pkg.Parts[n].Bytes
             /\ Hex(Sum256(partFiles[n].data)) = pkg.Parts[n].Sha256sum

\* C3: with an empty manifest signature the one step PkgFetch takes returns an
\* error, issues no request and creates no directory or file.
C3_EmptySignatureRejected ==
    [][(pkgURLSignature = "" /\ pc = "PkgFetch") =>
          /\ pc' = "returned" /\ ret'.err # Nil
          /\ metaReqs' = 0 /\ \A n \in PartNames : partReqs'[n] = <<>>
          /\ UNCHANGED <<dirs, metaFile, partFiles>>]_vars

C3_Witness ==
    /\ pkgURLSignature = "" /\ Returned /\ ret.err # Nil
    /\ destinationDir \notin dirs

\* C4: the manifest file changes only in a fetchPkgMeta whose GET answered 200,
\* whose signature verified and whose body decoded; any other fetchPkgMeta
\* returns the error of the first check that failed (status, then signature,
\* then decoding) and leaves directories and files as they were.
C4_ManifestWrittenLast ==
    [][/\ metaFile' # metaFile => (pc = "fetchPkgMeta" /\ MetaGood(metaSeen'))
       /\ pc = "fetchPkgMeta" =>
            IF MetaGood(metaSeen')
            THEN metaFile' = File(MetaRaw) /\ pc' = "precheck"
            ELSE /\ pc' = "returned" /\ ret'.err # Nil
                 /\ UNCHANGED <<dirs, metaFile, partFiles>>
                 /\ ret'.err.msg =
                      IF metaSeen'.neterr THEN "client.Do"
                      ELSE IF metaSeen'.status # 200
                      THEN "Unexpected status code in response to Horizon Pkg fetch"
                      ELSE IF metaSeen'.verified # "true"
                      THEN "Pkg metadata failed cryptographic verification"
                      ELSE "Unmarshal"]_vars

\* a verified manifest body that does not decode: an error and no file
C4_Witness ==
    /\ Returned /\ ret.err.msg = "Unmarshal"
    /\ metaSeen.status = 200 /\ metaSeen.verified = "true" /\ ~metaSeen.decodes
    /\ metaFile = Absent

\* C5: a goroutine is started or a part source requested only after the
\* manifest was fetched, verified, decoded and written and every part has its
\* Meta.Provides entry; a manifest-stage or precheck error is what PkgFetch
\* returns, with no goroutine started and no part request issued.
C5_PartsOnlyAfterManifest ==
    /\ (\E n \in PartNames : tpc[n] # "none" \/ partReqs[n] # <<>>) =>
          /\ MetaGood(metaSeen)
          /\ metaFile = File(MetaRaw)
          /\ pkg # NoPkg
          /\ \A n \in Parts : pkg.Parts[n].ID \in pkg.Provides
          /\ pc \in {"Wait", "returned"}
    /\ (Returned /\ metaSeen.asked /\ ~MetaGood(metaSeen)) =>
          /\ ret.err.type \in {"url.Error", "PkgMetaError", "json.SyntaxError"}
          /\ \A n \in PartNames : tpc[n] = "none" /\ partReqs[n] = <<>>
    /\ (Returned /\ \E n \in Parts : pkg.Parts[n].ID \notin pkg.Provides) =>
          /\ ret.err.type = "PkgPrecheckError"
          /\ \A n \in PartNames : tpc[n] = "none" /\ partReqs[n] = <<>>

\* a verified, decoded and written manifest that fails the precheck
C5_Witness ==
    /\ Returned /\ MetaGood(metaSeen) /\ metaFile = File(MetaRaw)
    /\ \E n \in Parts : pkg.Parts[n].ID \notin pkg.Provides
    /\ \E n \in Parts : pkg.Parts[n].ID \in pkg.Provides /\ Len(pkg.Parts[n].Sources) > 0
    /\ ret.err.type = "PkgPrecheckError"
    /\ \A n \in PartNames : partReqs[n] = <<>>

\* fetchPkgPart of the goroutine of part n has returned or panicked
FetchDone(n) == tpc[n] \notin {"none", "fetch"}

\* C6: a part whose file is there with exactly Bytes bytes when fetchPkgPart
\* starts is fetched with no request and an untouched file.
C6_ExistingFileSkipsDownload ==
    \A n \in PartNames :
        (/\ FetchDone(n)
         /\ initFiles[n].exists
         /\ Len(initFiles[n].data) = pkg.Parts[n].Bytes) =>
            /\ partReqs[n] = <<>>
            /\ (tpc[n] = "addFetch" => terr[n] = Nil /\ partFiles[n] = initFiles[n])

\* the bytes of the files an earlier run left behind
StaleBytes == {3}

\* C7: a part whose file is there with another size than Bytes has it removed
\* and recreated empty before the first request: once a request was issued no
\* stale byte is left in the file, and the first request went to sources[0].
C7_StaleFileReplaced ==
    \A n \in PartNames :
        (/\ tpc[n] = "addFetch"
         /\ initFiles[n].exists
         /\ Len(initFiles[n].data) # pkg.Parts[n].Bytes
         /\ partReqs[n] # <<>>) =>
            /\ Range(partFiles[n].data) \cap StaleBytes = {}
            /\ partReqs[n][1] = ResolveSource(PkgURLBase(pkgURL), pkg.Parts[n].Sources[1].URL)

\* ------------------------------------------------------------------------
\* fetchPkgPart and verifyPkgPart called on their own, for a source list and a
\* permutation of it against the same servers (PartSpec)
\* ------------------------------------------------------------------------
progVars == <<earlier, checked, world, pkgURLSignature, pc, dirs, metaFile, partFiles, initFiles,
              metaSeen, metaReqs, partReqs, pkg, Errors, fetched, WriteLock, tpc,
              terr, synced, verified, ret, crashed>>

\* PkgFetch is not running
Idle ==
    /\ world = "any"
    /\ pkgURLSignature = ""
    /\ pc = "idle"
    /\ dirs = {}
    /\ metaFile = Absent
    /\ partFiles = [n \in PartNames |-> Absent]
    /\ initFiles = partFiles
    /\ metaSeen = NotSeen
    /\ metaReqs = 0
    /\ partReqs = [n \in PartNames |-> <<>>]
    /\ pkg = NoPkg
    /\ Errors = [n \in PartNames |-> Nil]
    /\ fetched = <<>>
    /\ WriteLock = "free"
    /\ tpc = [n \in PartNames |-> "none"]
    /\ terr = [n \in PartNames |-> Nil]
    /\ synced = [n \in PartNames |-> FALSE]
    /\ verified = [n \in PartNames |-> 0]
    /\ checked = [n \in PartNames |-> 0]
    /\ earlier = NoRun
    /\ ret = NoReturn
    /\ crashed = FALSE

Reorderings(q, lists) == {r \in lists : Len(r) = Len(q) /\ Range(r) = Range(q)}

\* the part fetched: one signature, whatever the trust verifier makes of it
ThePart(sources) == Part("A", sources, <<SigPool[1]>>)

NotRun == [ran |-> FALSE, err |-> Nil, file |-> Absent, checked |-> 0]
NotFetched == FetchReturn(Nil, Absent, <<>>)

PartInit ==
    /\ Idle
    /\ \E file \in InitFiles, sources \in SourceLists :
       \E permuted \in Reorderings(sources, SourceLists),
          server \in [ResolvedURLs(PkgURLBase(pkgURL), sources) -> PartResponses],
          trust \in [{SigPool[1]} -> VerifyOutcomes] :
            args = [file |-> file, sources |-> sources, permuted |-> permuted,
                    server |-> server, trust |-> trust]
    /\ result = [stage |-> "start",
                 listed |-> [fetch |-> NotFetched, verify |-> NotRun],
                 permuted |-> [fetch |-> NotFetched, verify |-> NotRun]]

\* fetchPkgPart for the part with its sources as listed and as permuted
CallFetchPkgPart ==
    /\ result.stage = "start"
    /\ LET call(sources) ==
             fetchPkgPart(args.server, PkgURLBase(pkgURL), args.file,
                          ThePart(sources).Bytes, sources)
       IN result' = [stage |-> "fetched",
                     listed |-> [fetch |-> call(args.sources), verify |-> NotRun],
                     permuted |-> [fetch |-> call(args.permuted), verify |-> NotRun]]
    /\ UNCHANGED <<args, progVars>>

\* lines 375-381 for one part: verifyPkgPart runs on the file a successful
\* fetchPkgPart left
VerifyAfter(fetch, sources) ==
    IF fetch.panic \/ fetch.err # Nil THEN NotRun
    ELSE LET r == verifyPkgPart(args.trust, fetch.file, ThePart(sources).Sha256sum,
                                ThePart(sources).Signatures)
         IN [ran |-> TRUE, err |-> r.err, file |-> r.file, checked |-> r.checked]

CallVerifyPkgPart ==
    /\ result.stage = "fetched"
    /\ result' = [stage |-> "verified",
                  listed |-> [fetch |-> result.listed.fetch,
                              verify |-> VerifyAfter(result.listed.fetch, args.sources)],
                  permuted |-> [fetch |-> result.permuted.fetch,
                                verify |-> VerifyAfter(result.permuted.fetch, args.permuted)]]
    /\ UNCHANGED <<args, progVars>>

PartNext == CallFetchPkgPart \/ CallVerifyPkgPart

PartSpec == PartInit /\ [][PartNext]_vars

\* ------------------------------------------------------------------------
\* Properties of fetchPkgPart, checked under PartSpec
\* ------------------------------------------------------------------------
\* what the server answers for the i-th source of a list
Answer(sources, i) == args.server[ResolveSource(PkgURLBase(pkgURL), sources[i].URL)]

\* fetchPkgPart returned an error: no panic, no success
Exhausted(fetch) == result.stage # "start" /\ ~fetch.panic /\ fetch.err # Nil

IsAuthStatus(status) == status = 401 \/ status = 403

\* the error fetchPkgPart is to return for a source that answered with status
ClassifiedAs(err, status) ==
    /\ err.status = status
    /\ err.type = IF IsAuthStatus(status) THEN "PkgSourceFetchAuthError"
                  ELSE "PkgSourceFetchError"
    /\ err.msg # "Failed to complete fetch."

\* the sources of a list that answered with a status other than 200
FailedSources(sources) == {i \in DOMAIN sources : Answer(sources, i).status # 200}

Max(S) == CHOOSE i \in S : \A j \in S : j <= i

\* C8 as stated: the error is classified by the last source failure recorded,
\* and "Failed to complete fetch." is returned only if no source failed.
C8_LastRecordedFailureClassifies ==
    Exhausted(result.listed.fetch) =>
        LET failed == FailedSources(args.sources)
            err == result.listed.fetch.err
        IN IF failed = {}
           THEN err.msg = "Failed to complete fetch."
           ELSE ClassifiedAs(err, Answer(args.sources, Max(failed)).status)

\* C8 as amended: when fetchPkgPart returns an error every source was requested
\* once, and the error is classified by the answer of the last source of the
\* list alone: 401 or 403 gives PkgSourceFetchAuthError, another status
\* PkgSourceFetchError, both with that status and URL, and a 200 answer (of a
\* wrong length) or an empty list gives "Failed to complete fetch.", whatever
\* the earlier sources answered.
C8_LastSourceClassifies ==
    Exhausted(result.listed.fetch) =>
        LET n == Len(args.sources)
            err == result.listed.fetch.err
        IN /\ Len(result.listed.fetch.reqs) = n
           /\ IF n = 0 \/ Answer(args.sources, n).status = 200
              THEN err = Err("PkgSourceFetchError", "Failed to complete fetch.")
              ELSE /\ ClassifiedAs(err, Answer(args.sources, n).status)
                   /\ err.url = result.listed.fetch.reqs[n]
           /\ (n > 0 /\ \A i \in 1..n : Answer(args.sources, i).status = 403)
                 => err.type = "PkgSourceFetchAuthError"
           /\ (n > 0 /\ \A i \in 1..n : Answer(args.sources, i).status = 500)
                 => err.type = "PkgSourceFetchError"

\* a 403 followed by a 200 of the wrong length: the 403 is not reported
C8_Witness ==
    /\ Exhausted(result.listed.fetch)
    /\ Len(args.sources) = 2
    /\ Answer(args.sources, 1).status = 403
    /\ Answer(args.sources, 2).status = 200
    /\ result.listed.fetch.err.msg = "Failed to complete fetch."

\* pass or fail of fetchPkgPart followed, on success, by verifyPkgPart
Passes(r) == ~r.fetch.panic /\ r.fetch.err = Nil /\ r.verify.ran /\ r.verify.err = Nil

\* every source answers with a status and a body: no transport error
NoTransportError == \A u \in DOMAIN args.server : ~args.server[u].neterr

\* C10 as stated: a source list and its permutation pass or fail alike.
C10_SourceOrderIrrelevant ==
    (result.stage = "verified" /\ NoTransportError) =>
        (Passes(result.listed) <=> Passes(result.permuted))

\* C10 as amended: a source list and its permutation agree on the outcome of
\* fetchPkgPart, which succeeds exactly when some source answers 200 with
\* exactly Bytes bytes; verifyPkgPart then judges the body of the first such
\* source in the order given.
C10_FetchOrderIrrelevant ==
    (result.stage # "start" /\ NoTransportError) =>
        LET deliverable ==
              \E i \in DOMAIN args.sources :
                  /\ Answer(args.sources, i).status = 200
                  /\ Len(Answer(args.sources, i).body) = ThePart(args.sources).Bytes
        IN /\ ~result.listed.fetch.panic /\ ~result.permuted.fetch.panic
           /\ (result.listed.fetch.err = Nil) <=> deliverable
           /\ (result.permuted.fetch.err = Nil) <=> deliverable

\* both orders fetch, one passes verification and the other does not
C10_Witness ==
    /\ result.stage = "verified" /\ NoTransportError
    /\ result.listed.fetch.err = Nil /\ result.permuted.fetch.err = Nil
    /\ Passes(result.listed) /\ ~Passes(result.permuted)

\* ------------------------------------------------------------------------
\* verifySignatureWithAnyKey and verifyPkgPart called on their own, for a
\* signature list and a permutation of it under the same trust (SigSpec)
\* ------------------------------------------------------------------------
SigInit ==
    /\ Idle
    /\ \E file \in {File(GoodData), File(WrongData)}, signatures \in SigLists :
       \E permuted \in Reorderings(signatures, SigLists),
          trust \in [SigNames -> VerifyOutcomes] :
            args = [file |-> file, signatures |-> signatures, permuted |-> permuted,
                    trust |-> trust]
    /\ result = [stage |-> "start",
                 listed |-> [sig |-> Nil, part |-> NotRun],
                 permuted |-> [sig |-> Nil, part |-> NotRun]]

\* verifySignatureWithAnyKey over the digest of the file, for the signatures
\* as listed and as permuted
CallVerifySignatureWithAnyKey ==
    /\ result.stage = "start"
    /\ LET call(signatures) ==
             verifySignatureWithAnyKey(args.trust, Sum256(args.file.data), signatures)
       IN result' = [stage |-> "signature",
                     listed |-> [sig |-> call(args.signatures), part |-> NotRun],
                     permuted |-> [sig |-> call(args.permuted), part |-> NotRun]]
    /\ UNCHANGED <<args, progVars>>

\* verifyPkgPart of the file, for the signatures as listed and as permuted
CallVerifyPkgPartWith ==
    /\ result.stage = "signature"
    /\ LET call(signatures) ==
             LET r == verifyPkgPart(args.trust, args.file,
                                    ThePart(<<>>).Sha256sum, signatures)
             IN [ran |-> TRUE, err |-> r.err, file |-> r.file, checked |-> r.checked]
       IN result' = [stage |-> "part",
                     listed |-> [sig |-> result.listed.sig, part |-> call(args.signatures)],
                     permuted |-> [sig |-> result.permuted.sig, part |-> call(args.permuted)]]
    /\ UNCHANGED <<args, progVars>>

SigNext == CallVerifySignatureWithAnyKey \/ CallVerifyPkgPartWith

SigSpec == SigInit /\ [][SigNext]_vars

\* C9: a signature list and its permutation pass or fail alike, in
\* verifySignatureWithAnyKey and in verifyPkgPart of a file with the declared
\* hash, and they pass whenever the trust verifier accepts one signature of
\* the list, whatever it answers for the others.
C9_SignatureOrderIrrelevant ==
    LET accepted == \E i \in DOMAIN args.signatures : args.trust[args.signatures[i]] = "true"
        hashOk == Hex(Sum256(args.file.data)) = ThePart(<<>>).Sha256sum
    IN /\ result.stage # "start" =>
            /\ (result.listed.sig = Nil) <=> (result.permuted.sig = Nil)
            /\ accepted => result.listed.sig = Nil
       /\ (result.stage = "part" /\ hashOk) =>
            /\ (result.listed.part.err = Nil) <=> (result.permuted.part.err = Nil)
            /\ accepted => result.listed.part.err = Nil

\* ------------------------------------------------------------------------
\* PkgFetch called a second time on the directory the first run left (RerunSpec)
\* ------------------------------------------------------------------------
\* the error verifyPkgPart returns for a file whose hash is not the declared one
HashMismatch(err) ==
    /\ err.type = "PkgSignatureVerificationError"
    /\ err.msg = "Mismatch between expected hash and actual hash"

\* PkgFetch is called again after it returned or the process died, now in a
\* healthy world: directories and files are as the earlier run left them,
\* everything else starts afresh. Of the earlier run it is remembered for
\* which parts a hash mismatch was recorded
Rerun ==
    /\ pc = "returned" \/ crashed
    /\ ~earlier.ran
    /\ earlier' = [ran |-> TRUE,
                   mismatched |-> {n \in PartNames : HashMismatch(Errors[n])}]
    /\ world' = "healthy"
    /\ pkgURLSignature' \in PkgSignatures \ {""}
    /\ pc' = "PkgFetch"
    /\ initFiles' = partFiles
    /\ metaSeen' = NotSeen
    /\ metaReqs' = 0
    /\ partReqs' = [n \in PartNames |-> <<>>]
    /\ pkg' = NoPkg
    /\ Errors' = [n \in PartNames |-> Nil]
    /\ fetched' = <<>>
    /\ WriteLock' = "free"
    /\ tpc' = [n \in PartNames |-> "none"]
    /\ terr' = [n \in PartNames |-> Nil]
    /\ synced' = [n \in PartNames |-> FALSE]
    /\ verified' = [n \in PartNames |-> 0]
    /\ checked' = [n \in PartNames |-> 0]
    /\ ret' = NoReturn
    /\ crashed' = FALSE
    /\ UNCHANGED <<args, result, dirs, metaFile, partFiles>>

RerunNext == Next \/ Rerun

RerunSpec == Init /\ [][RerunNext]_vars

Delivers(sources, i) ==
    /\ Answer(sources, i).status = 200
    /\ Len(Answer(sources, i).body) = ThePart(sources).Bytes

\* the requests of a fetchPkgPart went to the sources in list order, one per
\* source, past sources that did not deliver only, and stopped at the first
\* that delivered
RequestsInListOrder(fetch, sources) ==
    LET k == Len(fetch.reqs)
    IN /\ k <= Len(sources)
       /\ \A i \in 1..k : fetch.reqs[i] = ResolveSource(PkgURLBase(pkgURL), sources[i].URL)
       /\ \A i \in 1..(k - 1) : ~Delivers(sources, i)
       /\ IF fetch.err = Nil
          THEN k >= 1 /\ Delivers(sources, k)
          ELSE k = Len(sources) /\ \A i \in 1..k : ~Delivers(sources, i)

\* C12: with sources that all answer, fetchPkgPart requests them in list order,
\* one request each, advances past those answering non-200 or a body of another
\* length than Bytes, stops at the first that delivers Bytes bytes, and on
\* success the file is exactly the body of that source.
C12_SourceFallbackOrder ==
    (result.stage # "start" /\ NoTransportError) =>
        LET fetch == result.listed.fetch
        IN /\ ~fetch.panic
           /\ RequestsInListOrder(fetch, args.sources)
           /\ fetch.err = Nil =>
                fetch.file = File(Answer(args.sources, Len(fetch.reqs)).body)

\* ------------------------------------------------------------------------
\* Properties of the goroutines of fetchAndVerify, checked under Spec
\* ------------------------------------------------------------------------
\* C13: a goroutine that is done either recorded the error of its fetchPkgPart
\* and did not verify, or its fetchPkgPart succeeded and then verifyPkgPart ran
\* once and exactly one result is recorded for the part: an error under its
\* name or its absolute path.
C13_FetchedPartsVerified ==
    \A n \in PartNames :
        tpc[n] = "done" =>
            IF verified[n] = 0
            THEN terr[n] # Nil /\ Errors[n] = terr[n]
            ELSE /\ verified[n] = 1
                 /\ (Errors[n] # Nil) # (Abs(PartPath(pkg.ID, n)) \in Range(fetched))

\* C14: a step of a goroutine that writes fetchErrs.Errors or fetched, or that
\* reads len(fetchErrs.Errors), is taken while the goroutine holds WriteLock,
\* and the read is never taken while another goroutine is inside addResult.
C14_SharedStateUnderLock ==
    [][\A n \in PartNames :
          /\ (tpc'[n] # tpc[n] /\ (Errors' # Errors \/ fetched' # fetched)) =>
                WriteLock = n
          /\ (tpc[n] = "check" /\ tpc'[n] # "check") =>
                /\ WriteLock = n
                /\ \A m \in PartNames \ {n} : tpc[m] \notin {"recFetch", "recVerify"}]_vars

\* ------------------------------------------------------------------------
\* Transport errors (PartSpec) and the file verifyPkgPart leaves (SigSpec)
\* ------------------------------------------------------------------------
\* C15: when a source of the list ends in a transport error, fetchPkgPart does
\* not panic, returns nil exactly when some source delivers Bytes bytes, and
\* returns a source-fetch error otherwise.
C15_TransportErrorIsSourceFailure ==
    (/\ result.stage # "start"
     /\ \E i \in DOMAIN args.sources : Answer(args.sources, i).neterr) =>
        LET fetch == result.listed.fetch
        IN /\ ~fetch.panic
           /\ (fetch.err = Nil) <=> \E i \in DOMAIN args.sources : Delivers(args.sources, i)
           /\ fetch.err # Nil =>
                fetch.err.type \in {"PkgSourceFetchError", "PkgSourceFetchAuthError"}

\* the file verifyPkgPart was called on has the declared hash
HashOk == Hex(Sum256(args.file.data)) = ThePart(<<>>).Sha256sum

\* what C16 requires of one call of verifyPkgPart, given what
\* verifySignatureWithAnyKey returns for the same signatures
DeletesOnlyOnMismatch(call) ==
    IF ~HashOk
    THEN /\ call.part.file = Absent
         /\ HashMismatch(call.part.err)
         /\ call.part.checked = 0
    ELSE /\ call.part.file = args.file
         /\ call.part.checked = 1
         /\ IF call.sig = Nil
            THEN call.part.err = Nil
            ELSE call.part.err = Err("PkgSignatureVerificationError",
                                     "Part failed cryptographic verification")

\* C16: verifyPkgPart removes the file exactly when its hash is not the
\* declared one, and then returns the mismatch error without calling on the
\* trust verifier; a file with the declared hash is left as it is, whether a
\* signature verifies (nil) or none does (verification error).
C16_DeleteOnlyOnHashMismatch ==
    result.stage = "part" =>
        /\ DeletesOnlyOnMismatch(result.listed)
        /\ DeletesOnlyOnMismatch(result.permuted)

\* a file with the declared hash and no verifying signature: an error, file kept
C16_Witness ==
    /\ result.stage = "part" /\ HashOk
    /\ args.signatures # <<>>
    /\ result.listed.part.err # Nil
    /\ result.listed.part.file = File(GoodData)

\* ------------------------------------------------------------------------
\* Order of fetch and verify within one goroutine, checked under Spec
\* ------------------------------------------------------------------------
\* C17: a goroutine is at verifyPkgPart only when its own fetchPkgPart has
\* returned nil and it has not verified yet; a part whose fetchPkgPart returned
\* an error has that error recorded under its name and is never verified;
\* verifyPkgPart runs at most once per part and verifySignatureWithAnyKey at
\* most once per part, only for a file whose hash is the declared one.
C17_VerifyOnlyAfterOwnFetch ==
    \A n \in PartNames :
        /\ verified[n] <= 1 /\ checked[n] <= verified[n]
        /\ tpc[n] = "verify" => (terr[n] = Nil /\ verified[n] = 0 /\ partReqs[n] # <<>>)
        /\ verified[n] = 1 => (FetchDone(n) /\ tpc[n] \in {"addVerify", "recVerify", "done"})
        /\ (tpc[n] \in {"check", "done"} /\ verified[n] = 0 /\ terr[n] # Nil) =>
              Errors[n] = terr[n]
        /\ (tpc[n] = "check" /\ terr[n] # Nil) => synced[n]
        /\ checked[n] = 1 =>
              /\ partFiles[n].exists
              /\ Hex(Sum256(partFiles[n].data)) = pkg.Parts[n].Sha256sum

\* one part failed to fetch and was not verified, the other was verified once
C17_Witness ==
    \E n, m \in Parts :
        /\ tpc[n] = "done" /\ verified[n] = 0 /\ Errors[n] # Nil
        /\ tpc[m] = "done" /\ verified[m] = 1 /\ checked[m] = 1

\* ------------------------------------------------------------------------
\* authenticatedRequest called on its own (AuthSpec)
\* ------------------------------------------------------------------------
MaxCreds == 3

\* the keys of authCreds: URL prefixes, cut at a "/"
CredKeyPool == << <<"https:", "", "host">>, <<"https:", "", "host", "pkgs">>,
                  <<"https:", "", "mirror">>, <<"https:", "", "other">> >>
CredKeys == {CredKeyPool[i] : i \in 1..MaxCreds}

\* the values of authCreds: maps that may lack "username" or "password" or
\* hold them empty
CredEntries ==
    [{"username", "password"} -> {"", "set"}]
    \cup [{"username"} -> {"set"}]
    \cup [{} -> {"set"}]

\* the URLs requested: the manifest and the sources of the parts
RequestURLs ==
    {pkgURL} \cup {ResolveSource(PkgURLBase(pkgURL), u) : u \in SourceURLs}

\* strings.HasPrefix(pURL, k)
HasPrefix(pURL, k) == Len(k) <= Len(pURL) /\ SubSeq(pURL, 1, Len(k)) = k

\* val, ok := v[field] into a variable that starts empty
Field(v, field) == IF field \in DOMAIN v THEN v[field] ELSE ""

\* the scan that stops at the first key that is a prefix of the URL
RECURSIVE ScanCreds_firstMatchStops(_, _, _, _, _)
ScanCreds_firstMatchStops(pURL, authCreds, order, i, attached) ==
    IF i > Len(order) THEN attached
    ELSE LET k == order[i]
             v == authCreds[k]
         IN IF HasPrefix(pURL, k)
            THEN IF Field(v, "username") # "" /\ Field(v, "password") # ""
                 THEN Append(attached, k)
                 ELSE attached
            ELSE ScanCreds_firstMatchStops(pURL, authCreds, order, i + 1, attached)

\* the loop of lines 31-50 over order[i..], the order in which range yields
\* the keys of the map: attached lists the keys whose credentials were given
\* to req.SetBasicAuth
RECURSIVE ScanCreds(_, _, _, _, _)
ScanCreds(pURL, authCreds, order, i, attached) ==
    IF i > Len(order) THEN attached
    ELSE LET k == order[i]
             v == authCreds[k]
         IN IF /\ HasPrefix(pURL, k)
               /\ Field(v, "username") # "" /\ Field(v, "password") # ""
            THEN Append(attached, k)
            ELSE ScanCreds(pURL, authCreds, order, i + 1, attached)

\* authenticatedRequest(pURL, authCreds): the GET request built, with the keys
\* of the entries whose credentials it was given
authenticatedRequest(pURL, authCreds, order) ==
    [Method |-> "GET", URL |-> pURL,
     attached |-> ScanCreds(pURL, authCreds, order, 1, <<>>)]

NoRequest == [Method |-> "", URL |-> <<>>, attached |-> <<>>]

AuthInit ==
    /\ Idle
    /\ \E pURL \in RequestURLs, keys \in SUBSET CredKeys :
       \E authCreds \in [keys -> CredEntries],
          order \in {q \in [1..Cardinality(keys) -> keys] : Injective(q)} :
            args = [pURL |-> pURL, authCreds |-> authCreds, order |-> order]
    /\ result = [stage |-> "start", req |-> NoRequest]

CallAuthenticatedRequest ==
    /\ result.stage = "start"
    /\ result' = [stage |-> "built",
                  req |-> authenticatedRequest(args.pURL, args.authCreds, args.order)]
    /\ UNCHANGED <<args, progVars>>

AuthNext == CallAuthenticatedRequest

AuthSpec == AuthInit /\ [][AuthNext]_vars

\* the entry of a key is a prefix of the URL requested / has both credentials
Matches(k) == HasPrefix(args.pURL, k)
Complete(k) ==
    Field(args.authCreds[k], "username") # "" /\ Field(args.authCreds[k], "password") # ""

\* the first key in iteration order that satisfies P
FirstKey(P(_)) ==
    args.order[CHOOSE i \in DOMAIN args.order :
                   P(args.order[i]) /\ \A j \in 1..(i - 1) : ~P(args.order[j])]

\* what C18 says of every request: credentials only of prefix-matching entries
\* with both fields non-empty, of at most one entry, of none when no key matches
AttachedSoundly ==
    /\ \A i \in DOMAIN result.req.attached :
          Matches(result.req.attached[i]) /\ Complete(result.req.attached[i])
    /\ Len(result.req.attached) <= 1
    /\ (\A k \in DOMAIN args.authCreds : ~Matches(k)) => result.req.attached = <<>>

Usable(k) == Matches(k) /\ Complete(k)

timeoutS(bytes) ==
    IF bytes <= 1024 * 1024 THEN 120 ELSE ((bytes * 8) \div 1024) \div 100

\* the part sizes tried: around 0, around 1 MiB, around the size from which
\* the computed timeout is 120 again, and larger ones
PartSizes ==
    {0, 1, 1024 * 1024 - 1, 1024 * 1024, 1024 * 1024 + 1, 1024 * 1024 + 2,
     1500 * 1024 - 1, 1500 * 1024, 1500 * 1024 + 128, 2 * 1024 * 1024,
     10 * 1024 * 1024, 100 * 1024 * 1024}

TimeoutInit ==
    /\ Idle
    /\ \E a, b \in PartSizes : a <= b /\ args = [a |-> a, b |-> b]
    /\ result = [stage |-> "start", a |-> 0, b |-> 0]

\* the timeouts of two parts of sizes a <= b
CallTimeoutS ==
    /\ result.stage = "start"
    /\ result' = [stage |-> "timed", a |-> timeoutS(args.a), b |-> timeoutS(args.b)]
    /\ UNCHANGED <<args, progVars>>

TimeoutNext == CallTimeoutS

TimeoutSpec == TimeoutInit /\ [][TimeoutNext]_vars

\* C19: for part sizes a <= b the timeout of a is at most that of b, and no
\* timeout is below the 120 seconds of a part of at most 1 MiB.
C19_TimeoutMonotone ==
    result.stage = "timed" =>
        /\ result.a <= result.b
        /\ result.a >= timeoutS(0) /\ result.b >= timeoutS(0)

\* ------------------------------------------------------------------------
\* Termination of fetchAndVerify under fair scheduling (FairSpec)
\* ------------------------------------------------------------------------
\* the steps of PkgFetch itself and those of the goroutine of a part
Main == PkgFetchStart \/ FetchMeta \/ Precheck \/ Fork \/ Join
Task(name) ==
    \/ TaskFetch(name) \/ TaskLock(name) \/ TaskRecord(name)
    \/ TaskCheck(name) \/ TaskVerify(name)

\* the Go scheduler lets every goroutine that can run take its next step; every
\* HTTP request and file operation returns (each is one step)
FairSpec ==
    /\ Spec
    /\ WF_vars(Main)
    /\ \A name \in PartNames : WF_vars(Task(name))

\* C20: fetchAndVerify returns only when every goroutine it started is done;
\* a goroutine that holds WriteLock releases it; every goroutine started
\* finishes; and fetchAndVerify, once it waits, returns.
C20_ForkJoinTerminates ==
    /\ [](\A n \in PartNames :
            (pc = "returned" /\ n \in Parts /\ ret.err.type \notin {"PkgPrecheckError", "PkgSourceError"})
                => tpc[n] = "done")
    /\ \A n \in PartNames : (WriteLock = n) ~> (WriteLock # n)
    /\ \A n \in PartNames : (tpc[n] = "fetch") ~> (tpc[n] = "done")
    /\ (pc = "Wait") ~> (pc = "returned")

====
